---------------------------- MODULE Spec2Model ----------------------------
(***************************************************************************)
(* perfect-freehand: getStrokePoints (the resampler), getStrokeRadius and  *)
(* getStrokeOutlinePoints (the outline builder).                           *)
(*                                                                         *)
(* A number is a scaled-down binary floating-point number: a multiple of   *)
(* 0.001 (Unit is 1.0) with SigBits significant bits, and every arithmetic *)
(* operation rounds its exact result to the nearest such number, ties to   *)
(* even, as IEEE-754 does with 53 bits.  Angles are fixed-point with four  *)
(* decimal digits, and the loop counters `t += step` of the outline        *)
(* builder are IEEE-754 doubles kept exactly (see F64Add).  The two        *)
(* functions are run step by step: one action per loop iteration, one for  *)
(* the code before each loop and one for the code after it.                *)
(***************************************************************************)
EXTENDS Integers, Sequences, FiniteSets, TLC

VARIABLES
    inputForm,                \* "array": points are [x, y, pressure?]; "object": {x, y, pressure?}
    points,                   \* the input points of getStrokePoints
    options,                  \* the options object given to both functions
    pc,                       \* position in the pipeline
    pts,                      \* getStrokePoints: the normalized raw points
    strokePoints,             \* getStrokePoints: the result so far / the input of the outline
    i,                        \* loop index (0-based as in the source) of the running loop
    runningLength,            \* getStrokePoints: runningLength
    hasReachedMinimumLength,  \* getStrokePoints: hasReachedMinimumLength
    leftPts, rightPts,        \* getStrokeOutlinePoints: collected side points
    prevPressure, radius, firstRadius, prevVector, pl, pr,
    usedRadii,                \* every radius a point of the outline was placed with
    thrown,                   \* TRUE once a step has read a point that does not exist
    outline                   \* the value getStrokeOutlinePoints returns

vars == <<inputForm, points, options, pc, pts, strokePoints, i, runningLength,
          hasReachedMinimumLength, leftPts, rightPts, prevPressure, radius,
          firstRadius, prevVector, pl, pr, usedRadii, thrown, outline>>

resampleVars == <<pts, strokePoints, i, runningLength, hasReachedMinimumLength>>
outlineVars == <<leftPts, rightPts, prevPressure, radius, firstRadius, prevVector,
                 pl, pr, usedRadii, thrown, outline>>

-----------------------------------------------------------------------------
(* Numbers *)

Unit == 10 * 10 * 10

\* The significant bits of a number.
SigBits == 15

\* The value of a missing array element or object field.
Undefined == -(Unit * Unit)

Abs(n) == IF n < 0 THEN -n ELSE n
Min(a, b) == IF a < b THEN a ELSE b
Max(a, b) == IF a > b THEN a ELSE b

\* n / d rounded to the nearest integer, ties away from zero (d > 0).
Rnd(n, d) == IF n >= 0 THEN (n + d \div 2) \div d ELSE -((d \div 2 - n) \div d)

\* The spacing of the numbers around a >= 0.
RECURSIVE UlpOf(_, _)
UlpOf(a, u) == IF a < (2 ^ SigBits) * u THEN u ELSE UlpOf(a, 2 * u)

\* x rounded to the nearest number, ties to even.
Fl(x) ==
    LET a == Abs(x)
        u == UlpOf(a, 1)
        q == a \div u
        r == a % u
        up == 2 * r > u \/ (2 * r = u /\ q % 2 = 1)
        m == (IF up THEN q + 1 ELSE q) * u
    IN  IF x < 0 THEN -m ELSE m

\* a + b, a - b, a * b and a / b.  The code divides by no zero: it returns
\* before any division when size <= 0, and divides by a taper only when a
\* length >= 0 is below it.
FAdd(a, b) == Fl(a + b)
FSub(a, b) == Fl(a - b)
FMul(a, b) == Fl(Rnd(a * b, Unit))
FDiv(a, b) ==
    IF b = 0 THEN 0
    ELSE IF b > 0 THEN Fl(Rnd(a * Unit, b)) ELSE -Fl(Rnd(a * Unit, -b))

RECURSIVE SqrtIter(_, _, _)
SqrtIter(n, lo, hi) ==
    IF lo >= hi THEN lo
    ELSE LET mid == (lo + hi + 1) \div 2
         IN  IF mid * mid <= n THEN SqrtIter(n, mid, hi) ELSE SqrtIter(n, lo, mid - 1)

\* Math.sqrt / Math.hypot on integers: the integer part of the square root.
ISqrt(n) == Fl(SqrtIter(n, 0, Min(n, 46340)))

-----------------------------------------------------------------------------
(* vec: 2D vector primitives.  A vector is a tuple; only its first two     *)
(* elements are read and the result has two elements.                      *)

add(A, B) == <<FAdd(A[1], B[1]), FAdd(A[2], B[2])>>
sub(A, B) == <<FSub(A[1], B[1]), FSub(A[2], B[2])>>
mul(A, n) == <<FMul(A[1], n), FMul(A[2], n)>>
neg(A) == <<-A[1], -A[2]>>
per(A) == <<A[2], -A[1]>>
dpr(A, B) == FAdd(FMul(A[1], B[1]), FMul(A[2], B[2]))
len(A) == ISqrt(A[1] * A[1] + A[2] * A[2])
uni(A) == IF len(A) = 0 THEN <<0, 0>> ELSE <<FDiv(A[1], len(A)), FDiv(A[2], len(A))>>
dist(A, B) == len(sub(A, B))
dist2(A, B) ==
    LET d == sub(A, B) IN FAdd(FMul(d[1], d[1]), FMul(d[2], d[2]))
isEqual(A, B) == A[1] = B[1] /\ A[2] = B[2]
lrp(A, B, t) == add(A, mul(sub(B, A), t))
prj(A, B, c) == add(A, mul(B, c))

-----------------------------------------------------------------------------
(* getStrokePoints *)

\* pts[i][2] of the source: the third element of a raw point, if it has one.
Pressure2(p) == IF Len(p) >= 3 THEN p[3] ELSE Undefined

\* `x >= 0` of the source, which is false of undefined.
GE0(x) == x # Undefined /\ x >= 0

\* t = 0.15 + (1 - streamline) * 0.85
InterpT(streamline) == 150 + FMul(Unit - streamline, 850)

\* Array.isArray(points[0]) ? points : points.map(({x, y, pressure = 0.5}) => [x, y, pressure])
ToArrays(form, ps) ==
    IF form = "array" THEN ps
    ELSE [k \in 1..Len(ps) |->
            <<ps[k].x, ps[k].y, IF ps[k].pressure = Undefined THEN 500 ELSE ps[k].pressure>>]

\* pts.length === 2: the first point, then lrp(pts[0], last, i / 4) for i = 1..4
PadTwo(p) ==
    IF Len(p) = 2
    THEN <<p[1]>> \o [k \in 1..4 |-> lrp(p[1], p[2], FDiv(k * Unit, 4 * Unit))]
    ELSE p

\* pts.length === 1: [...pts, [...add(pts[0], [1, 1]), ...pts[0].slice(2)]]
PadOne(p) ==
    IF Len(p) = 1
    THEN <<p[1], add(p[1], <<Unit, Unit>>) \o SubSeq(p[1], 3, Len(p[1]))>>
    ELSE p

\* The first stroke point.
FirstStrokePoint(p) ==
    [point |-> <<p[1][1], p[1][2]>>,
     pressure |-> IF GE0(Pressure2(p[1])) THEN Pressure2(p[1]) ELSE 250,
     vector |-> <<Unit, Unit>>,
     distance |-> 0,
     runningLength |-> 0]

prev == strokePoints[Len(strokePoints)]
max == Len(pts) - 1

\* The adjusted point of raw index k.
Candidate(k) ==
    IF options.last /\ k = max
    THEN SubSeq(pts[k + 1], 1, 2)
    ELSE lrp(prev.point, pts[k + 1], InterpT(options.streamline))

\* Faulty variant of GateDrops: the final index is gated too.
GateDrops_AlsoFinal(k, rl) ==
    ~hasReachedMinimumLength /\ rl < options.size

\* The start-of-stroke gate drops raw index k, the running length being rl.
GateDrops(k, rl) ==
    k < max /\ ~hasReachedMinimumLength /\ rl < options.size

\* The stroke point pushed for raw index k.
NewStrokePoint(k, point, distance, rl) ==
    [point |-> point,
     pressure |-> IF GE0(Pressure2(pts[k + 1])) THEN Pressure2(pts[k + 1]) ELSE 500,
     vector |-> uni(sub(prev.point, point)),
     distance |-> distance,
     runningLength |-> rl]

\* Faulty variant of AliasAfterSlice: the last point is removed in place.
AliasAfterSlice_InPlace(aliased) == aliased

\* Line 38: pts.slice(0, -1) is a new array, so that pts names the input
\* array no longer, whether it did (aliased) or not.
AliasAfterSlice(aliased) == FALSE

\* The elements of the input array after lines 27-47.  pts is the input
\* array itself when that holds arrays (line 28) and a new array otherwise
\* (line 29); the pushes of line 40 land in the array pts names then; line
\* 46 builds a new array.  No element of pts is written to.
InputAfterNormalize(form, ps) ==
    IF Len(ps) = 2 /\ AliasAfterSlice(form = "array")
    THEN PadTwo(ToArrays(form, ps))
    ELSE ps

\* Lines 17-66: up to the loop.
Normalize ==
    /\ pc = "getStrokePoints"
    /\ IF Len(points) = 0
       THEN /\ pc' = "resampled"
            /\ UNCHANGED resampleVars
            /\ UNCHANGED points
       ELSE LET p == PadOne(PadTwo(ToArrays(inputForm, points)))
            IN  /\ pts' = p
                /\ strokePoints' = <<FirstStrokePoint(p)>>
                /\ i' = 1
                /\ runningLength' = 0
                /\ hasReachedMinimumLength' = FALSE
                /\ pc' = "resampling"
                /\ points' = InputAfterNormalize(inputForm, points)
    /\ UNCHANGED <<inputForm, options>>
    /\ UNCHANGED outlineVars

\* Lines 68-107: one iteration of the loop.
ResampleStep ==
    /\ pc = "resampling"
    /\ i < Len(pts)
    /\ LET point == Candidate(i)
           distance == dist(point, prev.point)
           rl == FAdd(runningLength, distance)
       IN  IF isEqual(prev.point, point)
           THEN UNCHANGED <<strokePoints, runningLength, hasReachedMinimumLength>>
           ELSE /\ runningLength' = rl
                /\ IF GateDrops(i, rl)
                   THEN UNCHANGED <<strokePoints, hasReachedMinimumLength>>
                   ELSE /\ hasReachedMinimumLength' =
                              (hasReachedMinimumLength \/ i < max)
                        /\ strokePoints' =
                              Append(strokePoints, NewStrokePoint(i, point, distance, rl))
    /\ i' = i + 1
    /\ UNCHANGED <<inputForm, points, options, pc, pts>>
    /\ UNCHANGED outlineVars

\* Lines 108-110: after the loop.
ResampleReturn ==
    /\ pc = "resampling"
    /\ i >= Len(pts)
    /\ strokePoints' =
          [strokePoints EXCEPT ![1].vector =
              IF Len(strokePoints) >= 2 THEN strokePoints[2].vector ELSE <<0, 0>>]
    /\ pc' = "resampled"
    /\ UNCHANGED <<inputForm, points, options, pts, i, runningLength,
                   hasReachedMinimumLength>>
    /\ UNCHANGED outlineVars

-----------------------------------------------------------------------------
(* Math.sin, Math.cos and rotAround.  Angles are fixed-point with four     *)
(* decimal digits.                                                         *)

AUnit == 10 * Unit
PI == 31416
HalfPi == PI \div 2
\* FIXED_PI = PI + 0.0001
FIXED_PI == PI + 1

\* sin x for -PI/2 <= x <= PI/2, by its Taylor series, in angle units.
SinSeries(x) ==
    LET x2 == Rnd(x * x, AUnit)
        t3 == Rnd(x * x2, 6 * AUnit)
        t5 == Rnd(t3 * x2, 20 * AUnit)
        t7 == Rnd(t5 * x2, 42 * AUnit)
        t9 == Rnd(t7 * x2, 72 * AUnit)
        t11 == Rnd(t9 * x2, 110 * AUnit)
    IN  x - t3 + t5 - t7 + t9 - t11

Sin(x) ==
    LET a == x % (2 * PI)
        b == IF a > PI THEN a - 2 * PI ELSE a
        c == IF b > HalfPi THEN PI - b ELSE IF b < -HalfPi THEN -PI - b ELSE b
    IN  Rnd(SinSeries(c) * Unit, AUnit)

Cos(x) == Sin(x + HalfPi)

\* Rotate A around C by r radians.
rotAround(A, C, r) ==
    LET s == Sin(r)
        c == Cos(r)
        px == A[1] - C[1]
        py == A[2] - C[2]
    IN  <<FMul(px, c) - FMul(py, s) + C[1], FMul(px, s) + FMul(py, c) + C[2]>>

-----------------------------------------------------------------------------
(* The loop counters `for (step = 1 / n, t = ...; t <= 1; t += step)`.     *)
(* A double in [0, 2) is kept exactly as <<hi, lo>>, standing for          *)
(* (hi * 2^29 + lo) * 2^-57 with 0 <= lo < 2^29.                           *)

Two29 == 2 ^ 29
F64Zero == <<0, 0>>
F64One == <<2 ^ 28, 0>>
\* The doubles nearest to 1 / 13 and to 1 / 29.
Step13 == <<20648881, 123893288>>
Step29 == <<9256395, 18512790>>

F64LessEq(a, b) == a[1] < b[1] \/ (a[1] = b[1] /\ a[2] <= b[2])
F64Less(a, b) == a[1] < b[1] \/ (a[1] = b[1] /\ a[2] < b[2])

\* a + b of two doubles: the exact sum rounded to 53 significant bits,
\* ties to even.
F64Add(a, b) ==
    LET lo0 == a[2] + b[2]
        hi0 == a[1] + b[1] + lo0 \div Two29
        lo1 == lo0 % Two29
        ulp == IF hi0 >= 2 ^ 28 THEN 32
               ELSE IF hi0 >= 2 ^ 27 THEN 16
               ELSE IF hi0 >= 2 ^ 26 THEN 8
               ELSE IF hi0 >= 2 ^ 25 THEN 4
               ELSE IF hi0 >= 2 ^ 24 THEN 2
               ELSE 1
        r == lo1 % ulp
        q == lo1 \div ulp
        up == 2 * r > ulp \/ (2 * r = ulp /\ q % 2 = 1)
        lo2 == (IF up THEN q + 1 ELSE q) * ulp
    IN  IF lo2 >= Two29 THEN <<hi0 + 1, lo2 - Two29>> ELSE <<hi0, lo2>>

\* The values t takes in `for (t = t0; t <= 1; t += step)` (inclusive) or
\* `for (t = t0; t < 1; t += step)`.
RECURSIVE LoopTs(_, _, _)
LoopTs(t, step, inclusive) ==
    IF (inclusive /\ F64LessEq(t, F64One)) \/ (~inclusive /\ F64Less(t, F64One))
    THEN <<t>> \o LoopTs(F64Add(t, step), step, inclusive)
    ELSE <<>>

\* FIXED_PI * n * t as an angle, t a double.
Angle(n, t) == n * Rnd(FIXED_PI * Rnd(t[1], 2 ^ 13), 2 ^ 15)

Reverse(s) == [k \in 1..Len(s) |-> s[Len(s) + 1 - k]]

-----------------------------------------------------------------------------
(* getStrokeRadius *)

\* The easing functions the options name.
Ease(name, t) ==
    CASE name = "linear" -> t
      [] name = "easeInQuad" -> FMul(t, t)
      [] name = "taperStart" -> FMul(t, 2 * Unit - t)
      [] name = "taperEnd" -> FMul(FMul(t - Unit, t - Unit), t - Unit) + Unit

getStrokeRadius(size, thinning, pressure, easing) ==
    FMul(size, Ease(easing, 500 - FMul(thinning, 500 - pressure)))

-----------------------------------------------------------------------------
(* getStrokeOutlinePoints *)

RATE_OF_PRESSURE_CHANGE == 275

taperStart == options.start.taper
taperEnd == options.end.taper
totalLength == strokePoints[Len(strokePoints)].runningLength
minDistance == FMul(FMul(options.size, options.smoothing),
                    FMul(options.size, options.smoothing))

\* The simulated pressure of a point at `distance` from the one before.
SimulatedPressure(acc, distance) ==
    LET sp == Min(Unit, FDiv(distance, options.size))
        rp == Min(Unit, Unit - sp)
    IN  Min(Unit, acc + FMul(rp - acc, FMul(sp, RATE_OF_PRESSURE_CHANGE)))

\* points.slice(0, 10).reduce(..., points[0].pressure), over sp[k..].
RECURSIVE InitialPressure(_, _, _)
InitialPressure(sp, k, acc) ==
    IF k > Min(Len(sp), 10) THEN acc
    ELSE LET pressure == IF options.simulatePressure
                         THEN SimulatedPressure(acc, sp[k].distance)
                         ELSE sp[k].pressure
         IN  InitialPressure(sp, k + 1, Rnd(acc + pressure, 2))

\* Faulty variant of IsDegenerate: `size < 0` for `size <= 0`.
IsDegenerate_NegativeOnly == Len(strokePoints) = 0 \/ options.size < 0

\* Line 565: nothing can be drawn.
IsDegenerate == Len(strokePoints) = 0 \/ options.size <= 0

\* Lines 559-601: up to the loop.
OutlineBegin ==
    /\ pc = "resampled"
    /\ IF IsDegenerate
       THEN /\ outline' = <<>>
            /\ pc' = "done"
            /\ UNCHANGED <<i, leftPts, rightPts, prevPressure, radius, firstRadius,
                           prevVector, pl, pr>>
       ELSE /\ leftPts' = <<>>
            /\ rightPts' = <<>>
            /\ prevPressure' = InitialPressure(strokePoints, 1, strokePoints[1].pressure)
            /\ radius' = getStrokeRadius(options.size, options.thinning,
                            strokePoints[Len(strokePoints)].pressure, options.easing)
            /\ firstRadius' = Undefined
            /\ prevVector' = strokePoints[1].vector
            /\ pl' = strokePoints[1].point
            /\ pr' = strokePoints[1].point
            /\ i' = 0
            /\ pc' = "outlining"
            /\ UNCHANGED outline
    /\ UNCHANGED <<inputForm, points, options, pts, strokePoints, runningLength,
                   hasReachedMinimumLength, usedRadii, thrown>>

\* Faulty variant of Skips: the last index is trimmed too.
Skips_AlsoLast(k) == totalLength - strokePoints[k + 1].runningLength < 3 * Unit

\* Line 613: index k is trimmed as noise near the end of the line.
Skips(k) ==
    k < Len(strokePoints) - 1 /\ totalLength - strokePoints[k + 1].runningLength < 3 * Unit

\* Lines 610-631: the pressure of index k.
PointPressure(k) ==
    IF options.thinning # 0 /\ options.simulatePressure
    THEN SimulatedPressure(prevPressure, strokePoints[k + 1].distance)
    ELSE strokePoints[k + 1].pressure

\* Lines 623-636: the radius of index k before tapering.
RawRadius(k) ==
    IF options.thinning # 0
    THEN getStrokeRadius(options.size, options.thinning, PointPressure(k), options.easing)
    ELSE FDiv(options.size, 2 * Unit)

\* Lines 647-653: the tapered radius of index k, never below 0.01.
TaperedRadius(k, r) ==
    LET rl == strokePoints[k + 1].runningLength
        ts == IF rl < taperStart THEN Ease("taperStart", FDiv(rl, taperStart)) ELSE Unit
        te == IF totalLength - rl < taperEnd
              THEN Ease("taperEnd", FDiv(totalLength - rl, taperEnd))
              ELSE Unit
    IN  Max(Unit \div 100, FMul(r, Min(ts, te)))

\* Faulty variant of CornerPts: the loop starts at t = step.
CornerPts_FromStep(start, point, dir) ==
    LET ts == LoopTs(Step13, Step13, TRUE)
    IN  [k \in 1..Len(ts) |-> rotAround(start, point, dir * Angle(1, ts[k]))]

\* Lines 676-681: the points of one side of a sharp corner; dir is 1 on the
\* left and -1 on the right.
CornerPts(start, point, dir) ==
    LET ts == LoopTs(F64Zero, Step13, TRUE)
    IN  [k \in 1..Len(ts) |-> rotAround(start, point, dir * Angle(1, ts[k]))]

\* Faulty variant of LeftPoint: the offset is added.
LeftPoint_Added(point, offset) == add(point, offset)

\* Lines 658 and 696, 659 and 701: the points to the left and to the right
\* of a stroke point.
LeftPoint(point, offset) == sub(point, offset)
RightPoint(point, offset) == add(point, offset)

\* Lines 697 and 702: a regular point of index k is kept.
Keeps(k, anchor, pt) == k <= 1 \/ dist2(anchor, pt) > minDistance

\* Lines 609-709: one iteration of the loop.
OutlineStep ==
    /\ pc = "outlining"
    /\ i < Len(strokePoints)
    /\ LET sp == strokePoints[i + 1]
           pressure == PointPressure(i)
           r0 == RawRadius(i)
           r == TaperedRadius(i, r0)
       IN  IF Skips(i)
           THEN UNCHANGED <<leftPts, rightPts, prevPressure, radius, firstRadius,
                            prevVector, pl, pr, usedRadii>>
           ELSE /\ radius' = r
                /\ firstRadius' = IF firstRadius = Undefined THEN r0 ELSE firstRadius
                /\ usedRadii' = usedRadii \cup {r}
                /\ IF i = Len(strokePoints) - 1
                   THEN LET offset == mul(per(sp.vector), r)
                        IN  /\ leftPts' = Append(leftPts, LeftPoint(sp.point, offset))
                            /\ rightPts' = Append(rightPts, RightPoint(sp.point, offset))
                            /\ UNCHANGED <<prevPressure, prevVector, pl, pr>>
                   ELSE LET nextVector == strokePoints[i + 2].vector
                            nextDpr == dpr(sp.vector, nextVector)
                        IN  IF nextDpr < 0
                            THEN LET offset == mul(per(prevVector), r)
                                     ls == CornerPts(LeftPoint(sp.point, offset), sp.point, 1)
                                     rs == CornerPts(RightPoint(sp.point, offset), sp.point, -1)
                                 IN  /\ leftPts' = leftPts \o ls
                                     /\ rightPts' = rightPts \o rs
                                     /\ pl' = ls[Len(ls)]
                                     /\ pr' = rs[Len(rs)]
                                     /\ UNCHANGED <<prevPressure, prevVector>>
                            ELSE LET offset == mul(per(lrp(nextVector, sp.vector, nextDpr)), r)
                                     tl == LeftPoint(sp.point, offset)
                                     tr == RightPoint(sp.point, offset)
                                 IN  /\ IF Keeps(i, pl, tl)
                                        THEN leftPts' = Append(leftPts, tl) /\ pl' = tl
                                        ELSE UNCHANGED <<leftPts, pl>>
                                     /\ IF Keeps(i, pr, tr)
                                        THEN rightPts' = Append(rightPts, tr) /\ pr' = tr
                                        ELSE UNCHANGED <<rightPts, pr>>
                                     /\ prevPressure' = pressure
                                     /\ prevVector' = sp.vector
    /\ i' = i + 1
    /\ UNCHANGED <<inputForm, points, options, pc, pts, strokePoints, runningLength,
                   hasReachedMinimumLength, thrown, outline>>

firstPoint == SubSeq(strokePoints[1].point, 1, 2)
lastPoint ==
    IF Len(strokePoints) > 1
    THEN SubSeq(strokePoints[Len(strokePoints)].point, 1, 2)
    ELSE add(strokePoints[1].point, <<Unit, Unit>>)

\* Faulty variant of DrawsDot: a dot only for a completed stroke.
DrawsDot_OnlyComplete == options.last

\* Line 732: a single stroke point is drawn as a dot.
DrawsDot == ~(taperStart # 0 \/ taperEnd # 0) \/ options.last

\* Line 733: firstRadius || radius
DotRadius == IF firstRadius # Undefined /\ firstRadius # 0 THEN firstRadius ELSE radius

\* Faulty variant of DotPts: the loop starts at t = 0.
DotPts_FromZero ==
    LET start_1 == prj(firstPoint, uni(per(sub(firstPoint, lastPoint))), -DotRadius)
        ts == LoopTs(F64Zero, Step13, TRUE)
    IN  [k \in 1..Len(ts) |-> rotAround(start_1, firstPoint, Angle(2, ts[k]))]

\* Lines 733-737
DotPts ==
    LET start_1 == prj(firstPoint, uni(per(sub(firstPoint, lastPoint))), -DotRadius)
        ts == LoopTs(Step13, Step13, TRUE)
    IN  [k \in 1..Len(ts) |-> rotAround(start_1, firstPoint, Angle(2, ts[k]))]

\* Line 750 and line 777: the start and the end are tapered.
StartTapered == taperStart # 0 \/ (taperEnd # 0 /\ Len(strokePoints) = 1)
EndTapered == taperEnd # 0 \/ (taperStart # 0 /\ Len(strokePoints) = 1)

\* Lines 750-766: the start cap; it reads rightPts[0] (and leftPts[0]).
StartCap ==
    IF StartTapered THEN <<>>
    ELSE IF options.start.cap
    THEN LET ts == LoopTs(Step13, Step13, TRUE)
         IN  [k \in 1..Len(ts) |-> rotAround(rightPts[1], firstPoint, Angle(1, ts[k]))]
    ELSE LET cornersVector == sub(leftPts[1], rightPts[1])
             offsetA == mul(cornersVector, 500)
             offsetB == mul(cornersVector, 510)
         IN  <<sub(firstPoint, offsetA), sub(firstPoint, offsetB),
               add(firstPoint, offsetB), add(firstPoint, offsetA)>>

\* The start cap reads a point that was never pushed.
StartCapThrows ==
    /\ ~StartTapered
    /\ \/ Len(rightPts) = 0
       \/ ~options.start.cap /\ Len(leftPts) = 0

\* Lines 776-791: the end cap.
EndCap ==
    LET direction == per(neg(strokePoints[Len(strokePoints)].vector))
    IN  IF EndTapered THEN <<lastPoint>>
        ELSE IF options.end.cap
        THEN LET start_2 == prj(lastPoint, direction, radius)
                 ts == LoopTs(Step29, Step29, FALSE)
             IN  [k \in 1..Len(ts) |-> rotAround(start_2, lastPoint, Angle(3, ts[k]))]
        ELSE <<add(lastPoint, mul(direction, radius)),
               add(lastPoint, mul(direction, FMul(radius, 990))),
               sub(lastPoint, mul(direction, FMul(radius, 990))),
               sub(lastPoint, mul(direction, radius))>>

\* Lines 717-798: after the loop.
OutlineCaps ==
    /\ pc = "outlining"
    /\ i >= Len(strokePoints)
    /\ pc' = "done"
    /\ IF Len(strokePoints) = 1
       THEN IF DrawsDot
            THEN /\ outline' = DotPts
                 /\ usedRadii' = usedRadii \cup {DotRadius}
                 /\ UNCHANGED thrown
            ELSE /\ outline' = leftPts \o Reverse(rightPts)
                 /\ UNCHANGED <<usedRadii, thrown>>
       ELSE IF StartCapThrows
            THEN /\ thrown' = TRUE
                 /\ UNCHANGED <<outline, usedRadii>>
            ELSE /\ outline' = leftPts \o EndCap \o Reverse(rightPts) \o StartCap
                 /\ usedRadii' = IF EndTapered THEN usedRadii ELSE usedRadii \cup {radius}
                 /\ UNCHANGED thrown
    /\ UNCHANGED <<inputForm, points, options, pts, strokePoints, i, runningLength,
                   hasReachedMinimumLength, leftPts, rightPts, prevPressure, radius,
                   firstRadius, prevVector, pl, pr>>

-----------------------------------------------------------------------------
(* The inputs *)

MaxPoints == 3

\* Sequences over S of length lo..hi.
SeqsOf(S, lo, hi) == UNION {[1..n -> S] : n \in lo..hi}

Coords == {<<0, 0>>, <<2 * Unit, 0>>, <<20 * Unit, 0>>, <<3 * Unit, 4 * Unit>>}

Tapers == {0, 5 * Unit}

Sizes == {-2 * Unit, 0, 2 * Unit, 16 * Unit}

DefaultOptions ==
    [streamline |-> 500, size |-> 16 * Unit, last |-> FALSE, thinning |-> 500,
     smoothing |-> 500, simulatePressure |-> TRUE, easing |-> "linear",
     start |-> [cap |-> TRUE, taper |-> 0], end |-> [cap |-> TRUE, taper |-> 0]]

\* The state before getStrokePoints is called on `ps` with options `o`.
Call(form, ps, o) ==
    /\ inputForm = form
    /\ points = ps
    /\ options = o
    /\ pc = "getStrokePoints"
    /\ pts = <<>>
    /\ strokePoints = <<>>
    /\ i = 0
    /\ runningLength = 0
    /\ hasReachedMinimumLength = FALSE
    /\ leftPts = <<>>
    /\ rightPts = <<>>
    /\ prevPressure = 0
    /\ radius = 0
    /\ firstRadius = Undefined
    /\ prevVector = <<0, 0>>
    /\ pl = <<0, 0>>
    /\ pr = <<0, 0>>
    /\ usedRadii = {}
    /\ thrown = FALSE
    /\ outline = <<>>

\* The whole pipeline, getStrokeOutlinePoints(getStrokePoints(points, options), options),
\* on points without pressure.
Init ==
    \E ps \in SeqsOf(Coords, 0, MaxPoints), sl \in {0, 500}, sz \in Sizes,
       l, cs, ce \in BOOLEAN, ta, tb \in Tapers :
        Call("array", ps,
             [DefaultOptions EXCEPT !.streamline = sl, !.size = sz, !.last = l,
                                    !.start = [cap |-> cs, taper |-> ta],
                                    !.end = [cap |-> ce, taper |-> tb]])

Next ==
    \/ Normalize
    \/ ResampleStep
    \/ ResampleReturn
    \/ OutlineBegin
    \/ OutlineStep
    \/ OutlineCaps

Spec == Init /\ [][Next]_vars

\* getStrokePoints alone, on points with and without pressure, in both forms.
RawPoints ==
    {<<0, 0>>, <<2 * Unit, 0, 800>>, <<20 * Unit, 0>>, <<5, 0, -Unit>>,
     <<40002, 0, 300>>, <<3 * Unit, 4 * Unit, 0>>}

ToObject(p) == [x |-> p[1], y |-> p[2], pressure |-> Pressure2(p)]

InitResample ==
    \E ps \in SeqsOf(RawPoints, 0, MaxPoints), form \in {"array", "object"},
       sl \in {0, 500}, sz \in {2 * Unit, 16 * Unit}, l \in BOOLEAN :
        Call(form,
             IF form = "array" THEN ps ELSE [k \in 1..Len(ps) |-> ToObject(ps[k])],
             [DefaultOptions EXCEPT !.streamline = sl, !.size = sz, !.last = l])

NextResample ==
    \/ Normalize
    \/ ResampleStep
    \/ ResampleReturn

SpecResample == InitResample /\ [][NextResample]_vars

\* The pipeline on straight horizontal lines travelling in +x, drawn with
\* thinning = 0 and without tapers.
MaxLinePoints == 4

LineXs == {0, Unit, 4 * Unit, 10 * Unit, 20 * Unit}

InitLine ==
    \E xs \in SeqsOf(LineXs, 2, MaxLinePoints), y \in {0, 5 * Unit},
       sz \in {10, 2 * Unit, 16 * Unit}, sl, sm \in {0, 500}, l \in BOOLEAN :
        /\ \A k \in 1..(Len(xs) - 1) : xs[k] < xs[k + 1]
        /\ Call("array", [k \in 1..Len(xs) |-> <<xs[k], y>>],
                [DefaultOptions EXCEPT !.streamline = sl, !.size = sz, !.last = l,
                                       !.smoothing = sm, !.thinning = 0])

SpecLine == InitLine /\ [][Next]_vars

\* getStrokeOutlinePoints alone, on stroke points along a path, all of one
\* pressure.
MaxStrokePoints == 3

PathCoords == {<<0, 0>>, <<4 * Unit, 0>>, <<20 * Unit, 3 * Unit>>}

RECURSIVE PathLength(_, _)
PathLength(path, k) ==
    IF k <= 1 THEN 0 ELSE FAdd(PathLength(path, k - 1), dist(path[k], path[k - 1]))

StrokeOf(path, pressure) ==
    [k \in 1..Len(path) |->
        [point |-> path[k],
         pressure |-> pressure,
         vector |-> IF Len(path) = 1 THEN <<0, 0>>
                    ELSE IF k = 1 THEN uni(sub(path[1], path[2]))
                    ELSE uni(sub(path[k - 1], path[k])),
         distance |-> IF k = 1 THEN 0 ELSE dist(path[k], path[k - 1]),
         runningLength |-> PathLength(path, k)]]

InitOutline ==
    \E path \in SeqsOf(PathCoords, 1, MaxStrokePoints), p \in {0, 2, 500, Unit},
       th \in {-Unit, 0, Unit}, sim, l \in BOOLEAN, e \in {"linear", "easeInQuad"},
       sz \in {2 * Unit, 16 * Unit}, ta, tb \in Tapers :
        /\ \A k \in 1..(Len(path) - 1) : path[k] # path[k + 1]
        /\ inputForm = "strokePoints"
        /\ points = <<>>
        /\ options = [DefaultOptions EXCEPT !.size = sz, !.thinning = th, !.last = l,
                                            !.simulatePressure = sim, !.easing = e,
                                            !.start.taper = ta, !.end.taper = tb]
        /\ pc = "resampled"
        /\ pts = <<>>
        /\ strokePoints = StrokeOf(path, p)
        /\ i = 0
        /\ runningLength = 0
        /\ hasReachedMinimumLength = FALSE
        /\ leftPts = <<>>
        /\ rightPts = <<>>
        /\ prevPressure = 0
        /\ radius = 0
        /\ firstRadius = Undefined
        /\ prevVector = <<0, 0>>
        /\ pl = <<0, 0>>
        /\ pr = <<0, 0>>
        /\ usedRadii = {}
        /\ thrown = FALSE
        /\ outline = <<>>

NextOutline ==
    \/ OutlineBegin
    \/ OutlineStep
    \/ OutlineCaps

SpecOutline == InitOutline /\ [][NextOutline]_vars

-----------------------------------------------------------------------------
(* Properties of the pipeline (Spec) *)

\* C1 (as stated): for at least two input points and size > 0, whatever the
\* taper, cap and last settings, the outline has at least 4 points.
C1_AtLeastFourPoints ==
    pc = "done" /\ Len(points) >= 2 /\ options.size > 0 => Len(outline) >= 4

\* C1 (amended): for at least two input points and size > 0, the outline has
\* at least 4 points when neither end is tapered, and at least 2 points
\* whatever the tapers are.
C1_AtLeastFourWithoutTaper ==
    pc = "done" /\ Len(points) >= 2 /\ options.size > 0 =>
        /\ Len(outline) >= 2
        /\ (taperStart = 0 /\ taperEnd = 0 => Len(outline) >= 4)

C1_Witness ==
    /\ pc = "done" /\ Len(points) >= 2 /\ options.size > 0
    /\ taperStart = 0 /\ taperEnd = 0
    /\ Len(strokePoints) = 1 /\ ~options.last
    /\ Len(outline) >= 4

\* C3: a single input point resampled with last = true and outlined without
\* tapers gives exactly 13 points, all at one distance from the input point.
C3_SinglePointIsDot ==
    pc = "done" /\ Len(points) = 1 /\ options.last /\ options.size > 0
                /\ taperStart = 0 /\ taperEnd = 0 =>
        /\ Len(outline) = 13
        /\ \A k \in 1..Len(outline) :
              Abs(dist(outline[k], points[1]) - dist(outline[1], points[1])) <= 50

\* C4: no step throws; when the caps are built for two or more stroke points,
\* leftPts and rightPts are both non-empty.
C4_NoThrow ==
    /\ ~thrown
    /\ pc = "outlining" /\ i >= Len(strokePoints) /\ Len(strokePoints) >= 2 =>
          Len(leftPts) >= 1 /\ Len(rightPts) >= 1

C4_Witness ==
    /\ pc = "done" /\ Len(strokePoints) >= 2 /\ ~StartTapered
    /\ Len(leftPts) = 1 /\ Len(rightPts) = 1
    /\ Len(outline) > 2

\* C5: getStrokePoints of no points returns no stroke points, and
\* getStrokeOutlinePoints returns an empty outline when there are no stroke
\* points or size <= 0, whatever the other options.
C5_DegenerateGivesEmpty ==
    /\ pc = "resampled" /\ Len(points) = 0 => strokePoints = <<>>
    /\ pc = "done" /\ (Len(strokePoints) = 0 \/ options.size <= 0) =>
          outline = <<>> /\ ~thrown

C5_Witness ==
    pc = "done" /\ Len(strokePoints) >= 2 /\ options.size = 0 /\ outline = <<>>

\* C11: getStrokePoints leaves its input sequence as it is (same length, same
\* elements), also when it synthesizes points for one or two input points,
\* and getStrokeOutlinePoints leaves every stroke point it is given as it is.
C11_ArgumentsUnchanged ==
    [][/\ points' = points
       /\ pc \in {"resampled", "outlining"} => strokePoints' = strokePoints]_vars

C11_Witness ==
    /\ pc = "done" /\ Len(points) = 2 /\ Len(pts) = 5
    /\ Len(strokePoints) >= 2 /\ Len(outline) > 0

-----------------------------------------------------------------------------
(* Properties of getStrokePoints (SpecResample) *)

\* The position and the pressure of input point k, in either form.
InputXY(k) ==
    IF inputForm = "array" THEN SubSeq(points[k], 1, 2) ELSE <<points[k].x, points[k].y>>
InputPressure(k) ==
    IF inputForm = "array" THEN Pressure2(points[k]) ELSE points[k].pressure

\* C2: in every returned sequence, distance[k] = runningLength[k] -
\* runningLength[k-1] for every k after the first (here: up to the rounding
\* of one sum), also when the gate dropped earlier raw points.
C2_DistanceIsLengthDifference ==
    pc = "resampled" =>
        \A k \in 2..Len(strokePoints) :
            Abs(strokePoints[k].distance
                - (strokePoints[k].runningLength - strokePoints[k - 1].runningLength)) <= 16

\* C6: with last = true and two or more input points, the last stroke point
\* is at the position of the last input point exactly.
C6_LastPointVerbatim ==
    pc = "resampled" /\ options.last /\ Len(points) >= 2 =>
        strokePoints[Len(strokePoints)].point = InputXY(Len(points))

\* C8: the first stroke point has pressure 0.25 when the first input point
\* has no pressure or a negative one, in either form, and the first input
\* point's pressure otherwise.
C8_FirstPressure ==
    pc = "resampled" /\ Len(points) >= 1 =>
        strokePoints[1].pressure =
            IF GE0(InputPressure(1)) THEN InputPressure(1) ELSE 250

\* C9: two input points become five raw points: the two input points
\* unchanged (position and pressure) as first and last, and the points at
\* 1/4, 2/4 and 3/4 between them; with last = true the last stroke point
\* has the second input point's position and pressure.
C9_TwoPointsKeptAsEndpoints ==
    pc \in {"resampling", "resampled"} /\ Len(points) = 2 =>
        /\ Len(pts) = 5
        /\ SubSeq(pts[1], 1, 2) = InputXY(1)
        /\ SubSeq(pts[5], 1, 2) = InputXY(2)
        /\ inputForm = "array" =>
              /\ GE0(InputPressure(1)) => Pressure2(pts[1]) = InputPressure(1)
              /\ GE0(InputPressure(2)) => Pressure2(pts[5]) = InputPressure(2)
        /\ \A k \in 1..3 : SubSeq(pts[k + 1], 1, 2) = lrp(InputXY(1), InputXY(2), 250 * k)
        /\ pc = "resampled" /\ options.last /\ GE0(InputPressure(2)) =>
              /\ strokePoints[Len(strokePoints)].point = InputXY(2)
              /\ strokePoints[Len(strokePoints)].pressure = InputPressure(2)

-----------------------------------------------------------------------------
(* Properties of straight lines (SpecLine) *)

\* The input is a horizontal line travelling in +x, drawn with thinning = 0
\* and without tapers.
IsHorizontalStroke ==
    /\ inputForm = "array"
    /\ Len(points) >= 2
    /\ \A k \in 1..(Len(points) - 1) :
          points[k][2] = points[k + 1][2] /\ points[k][1] < points[k + 1][1]
    /\ options.thinning = 0 /\ taperStart = 0 /\ taperEnd = 0

\* C7 (as stated): on such a line at height y every left point has
\* y-coordinate y - size / 2 and every right point y + size / 2.
C7_SidesAtHalfSize ==
    IsHorizontalStroke /\ pc \in {"outlining", "done"} =>
        /\ \A k \in 1..Len(leftPts) :
              leftPts[k][2] = FSub(points[1][2], FDiv(options.size, 2 * Unit))
        /\ \A k \in 1..Len(rightPts) :
              rightPts[k][2] = FAdd(points[1][2], FDiv(options.size, 2 * Unit))

\* C7 (amended): every left point has y-coordinate y - max(size / 2, 0.01)
\* and every right point y + max(size / 2, 0.01).
C7_SidesAtFlooredHalfSize ==
    IsHorizontalStroke /\ pc \in {"outlining", "done"} =>
        LET r == Max(FDiv(options.size, 2 * Unit), Unit \div 100)
        IN  /\ \A k \in 1..Len(leftPts) : leftPts[k][2] = FSub(points[1][2], r)
            /\ \A k \in 1..Len(rightPts) : rightPts[k][2] = FAdd(points[1][2], r)

C7_Witness ==
    /\ IsHorizontalStroke /\ pc = "done" /\ options.size = 16 * Unit
    /\ points[1][2] = 5 * Unit
    /\ Len(leftPts) >= 3 /\ Len(rightPts) >= 3
    /\ leftPts[3][2] = -3 * Unit /\ rightPts[3][2] = 13 * Unit

-----------------------------------------------------------------------------
(* Properties of getStrokeOutlinePoints (SpecOutline) *)

\* C10: every radius an outline point is placed with (side points, corner
\* arcs, end cap, dot) is at least 0.01.
C10_RadiiAtLeastFloor == \A r \in usedRadii : r >= Unit \div 100

\* C12: for exactly one stroke point, a start or end taper and last = false,
\* the start cap is empty and the end cap is the single point lastPoint =
\* firstPoint + (1, 1): the outline is the one left point, lastPoint, the one
\* right point.
C12_TaperedSinglePoint ==
    pc = "done" /\ Len(strokePoints) = 1 /\ (taperStart # 0 \/ taperEnd # 0)
                /\ ~options.last =>
        /\ Len(leftPts) = 1 /\ Len(rightPts) = 1
        /\ lastPoint = add(firstPoint, <<Unit, Unit>>)
        /\ outline = <<leftPts[1], lastPoint, rightPts[1]>>

\* C13: for exactly one stroke point and either no taper at all or last =
\* true, the outline is exactly 13 points on one circle around firstPoint,
\* each the one before it rotated by 2 * pi / 13 (up to 0.4% of the radius,
\* for the rounding of sines and cosines and the epsilon of FIXED_PI), and no left
\* or right point is among them.
C13_SinglePointCircle ==
    pc = "done" /\ Len(strokePoints) = 1
                /\ ((taperStart = 0 /\ taperEnd = 0) \/ options.last) =>
        /\ Len(outline) = 13
        /\ \A k \in 1..(Len(outline) - 1) :
              LET q == rotAround(outline[k], firstPoint, Rnd(2 * PI, 13))
                  tolerance == 3 + dist(outline[k], firstPoint) \div 250
              IN  /\ Abs(outline[k + 1][1] - q[1]) <= tolerance
                  /\ Abs(outline[k + 1][2] - q[2]) <= tolerance
        /\ \A k \in 1..Len(outline) :
              /\ \A j \in 1..Len(leftPts) : outline[k] # leftPts[j]
              /\ \A j \in 1..Len(rightPts) : outline[k] # rightPts[j]

C13_Witness ==
    /\ pc = "done" /\ Len(strokePoints) = 1 /\ taperStart # 0 /\ options.last
    /\ Len(leftPts) = 1 /\ Len(rightPts) = 1
    /\ Len(outline) = 13 /\ outline[1] # outline[7]

\* C14: for two or more stroke points the outline is leftPts, then the end
\* cap, then rightPts reversed, then the start cap; the start cap has 0
\* points if a start taper is set, else 13 if start.cap, else 4; the end cap
\* is lastPoint alone if an end taper is set, else has 28 points if end.cap,
\* else 4.
C14_CapSizes ==
    pc = "done" /\ Len(strokePoints) >= 2 /\ options.size > 0 =>
        LET nStart == IF taperStart # 0 THEN 0 ELSE IF options.start.cap THEN 13 ELSE 4
            nEnd == IF taperEnd # 0 THEN 1 ELSE IF options.end.cap THEN 28 ELSE 4
            nLeft == Len(leftPts)
            nRight == Len(rightPts)
        IN  /\ Len(outline) = nLeft + nEnd + nRight + nStart
            /\ SubSeq(outline, 1, nLeft) = leftPts
            /\ SubSeq(outline, nLeft + nEnd + 1, nLeft + nEnd + nRight) = Reverse(rightPts)
            /\ taperEnd # 0 => outline[nLeft + 1] = lastPoint

\* A step of the loop at a non-final index that is not trimmed and whose
\* vector and next vector have a negative dot product.
AtSharpCorner ==
    /\ pc = "outlining" /\ i < Len(strokePoints) - 1 /\ ~Skips(i)
    /\ dpr(strokePoints[i + 1].vector, strokePoints[i + 2].vector) < 0

\* The step appends n points to each side and leaves the anchors at the
\* last point of each side.
AppendsToBothSides(n) ==
    /\ Len(leftPts') = Len(leftPts) + n /\ Len(rightPts') = Len(rightPts) + n
    /\ SubSeq(leftPts', 1, Len(leftPts)) = leftPts
    /\ SubSeq(rightPts', 1, Len(rightPts)) = rightPts
    /\ pl' = leftPts'[Len(leftPts')] /\ pr' = rightPts'[Len(rightPts')]

\* C15 (as stated): at a sharp corner the step appends exactly 13 rotated
\* points to the left and exactly 13 to the right, sets the anchors to the
\* last rotated point of each side and appends no regular point.
C15_CornerAppendsThirteen == [][AtSharpCorner => AppendsToBothSides(13)]_vars

\* C15 (amended): at a sharp corner the step appends exactly 14 rotated
\* points to each side (t = 0, 1/13, ..., 1: 13 steps, both ends included),
\* all at one distance from the stroke point, sets the anchors to the last
\* rotated point of each side and appends no regular point.
C15_CornerAppendsFourteen ==
    [][AtSharpCorner =>
        /\ AppendsToBothSides(14)
        /\ \A k \in (Len(leftPts) + 1)..Len(leftPts') :
              LET c == strokePoints[i + 1].point
              IN  /\ Abs(dist(leftPts'[k], c) - radius') <= 3 + radius' \div 250
                  /\ Abs(dist(rightPts'[k - Len(leftPts) + Len(rightPts)], c) - radius')
                        <= 3 + radius' \div 250]_vars

C15_Witness ==
    /\ pc = "outlining" /\ i = 2 /\ Len(strokePoints) = 3
    /\ dpr(strokePoints[2].vector, strokePoints[3].vector) < 0
    /\ ~Skips(1)
    /\ Len(leftPts) >= 14 /\ Len(rightPts) >= 14
    /\ pl = leftPts[Len(leftPts)] /\ pl # leftPts[Len(leftPts) - 13]

\* C16: the start-of-stroke gate closes at most once.  A raw index whose
\* candidate differs from the previous stroke point is dropped only if it is
\* not the final index, the running length (this distance included) is below
\* size and no earlier index has emitted a stroke point; once an index has
\* emitted one, every later index whose candidate differs from the previous
\* stroke point emits one, and so does the final index.
C16_GateClosesOnce ==
    [][pc = "resampling" /\ i < Len(pts) /\ ~isEqual(prev.point, Candidate(i)) =>
        LET emits == strokePoints' = Append(strokePoints, strokePoints'[Len(strokePoints')])
            dropped == strokePoints' = strokePoints
            passedBefore == Len(strokePoints) >= 2
        IN  /\ emits \/ dropped
            /\ dropped => i < max /\ runningLength' < options.size /\ ~passedBefore
            /\ passedBefore => emits
            /\ i = max => emits]_vars

C16_Witness ==
    /\ pc = "resampled" /\ Len(pts) = 5 /\ Len(strokePoints) = 4
    /\ strokePoints[2].runningLength > strokePoints[2].distance
    /\ strokePoints[2].runningLength >= options.size

=============================================================================
